---------------------------- MODULE Spec2Model ----------------------------
(***************************************************************************)
(* A model of the note backend (src/backend/app): the upload-job pipeline  *)
(* (create_note_from_image, process_note_job), the note store with its     *)
(* deletion log, the incremental sync and the offline mutation replay.     *)
(*                                                                         *)
(* The server is one asyncio process over one database.  A coroutine runs  *)
(* without interruption between two awaits, so every action below is one   *)
(* await-free stretch of a handler or of the background task; the only     *)
(* suspension point of process_note_job is the await of the collaborator   *)
(* call.  A stretch that commits several times records every committed     *)
(* job status, in order, in the log `hist`.                                *)
(***************************************************************************)
EXTENDS Integers, Sequences, FiniteSets, TLC

(* ------------------------------ bounds -------------------------------- *)
MaxJobs  == 3      \* job rows ever created
MaxNotes == 3      \* note rows ever created
MaxClock == 5      \* readings of the wall clock

(* ------------------------- program constants -------------------------- *)
\* input_pipeline_service.py:19 sets 10; the model runs the same check with
\* a limit that MaxJobs can exceed.
MAX_CONCURRENT_NOTE_JOBS_PER_USER == 2
\* note_service.py:233 and :258 (limit: int = 500); scaled the same way.
SyncLimit == 2

NOTE_JOB_SOURCE == "library_from_image"
TERMINAL_JOB_STATUSES == {"FAILED", "PERSISTED"}
UPLOAD_JOB_STATUSES ==
    {"RECEIVED", "STORED", "QUEUED", "OCR_PENDING", "OCR_DONE",
     "AI_PENDING", "AI_DONE", "PERSISTED", "FAILED"}

Users   == {"u1", "u2"}
JobIds  == 1..MaxJobs
NoteIds == 1..MaxNotes
NULL    == 0       \* a NULL column (ids and clock readings start at 1)

VARIABLES
    users,          \* rows of the users table (ids)
    available,      \* doubao_service.availability_status()[0] (configuration)
    fkEnforced,     \* the database enforces foreign keys (PostgreSQL) or not (SQLite)
    jobs,           \* upload_jobs: job id -> row
    jobSeq,         \* job ids handed out so far (uuid4 never repeats)
    hist,           \* per job id, the statuses committed so far, in order
    task,           \* per job id, where its process_note_job coroutine is
    notes,          \* notes: note id -> row
    noteSeq,        \* note ids handed out so far
    deletion_logs,  \* deletion_logs rows, in insertion order
    removed,        \* per note id, the deletions of a row with that id: owner and time
    clock,          \* the last reading of datetime.now(timezone.utc)
    resp,           \* the response of the last request handled
    cursor,         \* a client device of Client: the server_time it keeps as next since
    known,          \* that device: the note ids it holds
    wall,           \* the second the wall clock shows
    disk,           \* the upload directory of the storage backend: path -> bytes
    stream          \* a progress stream (GET /jobs/{id}/stream) and the events it has sent

vars == <<users, available, fkEnforced, jobs, jobSeq, hist, task, notes,
          noteSeq, deletion_logs, removed, clock, resp, cursor, known,
          wall, disk, stream>>

pipelineVars == <<jobs, jobSeq, hist, task>>
noteVars     == <<notes, noteSeq, deletion_logs, removed>>

(* ------------------------------ helpers ------------------------------- *)
Range(s) == {s[i] : i \in DOMAIN s}

\* f without the keys in S.
Without(f, S) == [k \in (DOMAIN f) \ S |-> f[k]]

\* f with key k bound to v (k new or not).
With(f, k, v) == [x \in (DOMAIN f) \cup {k} |-> IF x = k THEN v ELSE f[x]]

NoResp == [op |-> "none", code |-> 0]

\* No progress stream has been opened.
NoStream == [state |-> "none", user |-> "none", job |-> 0,
             previous |-> <<>>, events |-> <<>>]


(* ------------------- the clock of upload_jobs rows -------------------- *)
\* A timestamp of an upload_jobs row is a second and, within it, the rank
\* of the clock reading that produced it among the readings made for the
\* row (0 is the start of the second).  wall is the second the clock
\* shows.  A stretch of a handler between two awaits takes far less than
\* a second, so the second changes between stretches (the step Tick) and
\* not inside one.
Epoch == [sec |-> 0, sub |-> 0]

Before(t1, t2) == t1.sec < t2.sec \/ (t1.sec = t2.sec /\ t1.sub < t2.sub)

\* datetime.now(timezone.utc), read for row job_id whose updated_at is t:
\* it has microseconds, so it is later than every reading made for the
\* row before it, one for each status committed (hist) and the one that
\* gave t.
utcnow(job_id, t) ==
    [sec |-> wall,
     sub |-> (IF t.sub > Len(hist[job_id]) THEN t.sub ELSE Len(hist[job_id])) + 1]

\* func.now(), read the same way.  SQLite compiles it to
\* CURRENT_TIMESTAMP, which has whole seconds; PostgreSQL's now() has
\* microseconds.  (fkEnforced tells the two databases apart.)
func_now(job_id, t) ==
    IF fkEnforced THEN utcnow(job_id, t) ELSE [sec |-> wall, sub |-> 0]

(* --------------------- app/utils/datetime_fmt.py ---------------------- *)
\* format_local: strftime("%Y-%m-%d %H:%M:%S") keeps the second only.
format_local(t) == t.sec

(* ---------------------- app/models/upload_job.py ---------------------- *)
\* UploadJob.append_error: the error list grows by one record (its stage).
append_error(job, stage) == [job EXCEPT !.error_logs = Append(@, stage)]

(* ------------------ app/services/pipeline_runner.py ------------------- *)
\* _update_status: set the status and updated_at = datetime.now(); the
\* commit follows at once.
_update_status(job, status) ==
    [job EXCEPT !.status = status,
                !.updated_at = utcnow(job.id, job.updated_at)]

\* A variant that records a failure of the collaborator call like any
\* other exception.
FailDoubao_AsUnexpected(job) ==
    _update_status(append_error(job, "UNEXPECTED"), "FAILED")

\* The three early exits of process_note_job that record a collaborator
\* failure: append_error({"stage": "DOUBAO", ...}); _update_status(FAILED).
FailDoubao(job) == _update_status(append_error(job, "DOUBAO"), "FAILED")

\* A variant of the catch-all handler that records no error.
OnUnexpected_NoRecord(job) == _update_status(job, "FAILED")

\* The catch-all handler: db.rollback() drops what was not committed, the
\* row is read again (`job` is the committed row), then
\* append_error({"stage": "UNEXPECTED", ...}); _update_status(FAILED).
OnUnexpected(job) == _update_status(append_error(job, "UNEXPECTED"), "FAILED")

\* A variant in which a failure of the cleanup reaches the catch-all
\* handler.
AfterCleanup_Escapes(job) == OnUnexpected(job)

\* Path(storage_path).unlink() when the file exists (lines 118-123).
Unlink(d, path) == Without(d, {path})

\* The file cleanup after PERSISTED runs inside its own try/except, so
\* nothing it raises reaches the catch-all handler: the row stays as it is.
AfterCleanup(job) == job

(* --------------- app/services/input_pipeline_service.py --------------- *)
\* A variant of the count that misses the committed rows.
count_active_jobs_Stale(js, u, src) == 0

\* count_active_jobs(user_id=u, source=src): rows of u whose status is not
\* terminal, of that source.
count_active_jobs(js, u, src) ==
    Cardinality({j \in DOMAIN js : /\ js[j].user_id = u
                                   /\ js[j].status \notin TERMINAL_JOB_STATUSES
                                   /\ js[j].source = src})

\* An uploaded file, by what create_job finds in it: "ok" and "ok2" pass
\* every check and are stored (two files of different bytes); "noname"
\* has no filename, "badext" an extension outside ALLOWED_EXTENSIONS,
\* "empty" no bytes, "big" more bytes than MAX_FILE_SIZE; "unstorable"
\* passes every check and store_bytes raises on it (the storage backend
\* fails).
FileKinds == {"ok", "ok2", "noname", "badext", "empty", "big", "unstorable"}

\* file.file.read(): the bytes of an uploaded file.
read(file) == <<"bytes", file>>

\* hashlib.sha256(file_bytes).hexdigest(): different bytes, different digests.
sha256(file_bytes) == <<"sha256", file_bytes[2]>>

\* The checks of the first loop of create_job on one file: each raises 400.
Refused(file) == file \in {"noname", "badext", "empty", "big"}

\* The first loop of create_job: it reads and checks every file, in
\* order, and raises at the first one it refuses; nothing is stored in it.
AllAccepted(file_list) == \A i \in DOMAIN file_list : ~Refused(file_list[i])

\* A variant of the first loop that stores each file as soon as it has
\* passed its checks.
StoredWhileChecking_Each(file_list) ==
    Cardinality({i \in DOMAIN file_list : \A k \in 1..i : ~Refused(file_list[k])})

\* The files the first loop has written when it ends or raises: it keeps
\* the bytes it read in binary_payloads and calls no store_bytes.
StoredWhileChecking(file_list) == 0

\* The second loop of create_job: store_bytes for every file in order,
\* up to the first one that raises; the files stored before it stay.
RECURSIVE StoredBeforeFailure(_)
StoredBeforeFailure(file_list) ==
    IF file_list = <<>> \/ Head(file_list) = "unstorable" THEN 0
    ELSE 1 + StoredBeforeFailure(Tail(file_list))

\* A variant of the file name that leaves the index out.
target_name_NoIndex(job_id, idx, single_file_mode) == <<job_id>>

\* Line 119 of create_job: "{job_id}{extension}" for a single file,
\* "{job_id}_{idx}{extension}" otherwise.  LocalStorageBackend.store_bytes
\* writes the file base_dir / filename and returns that path.
target_name(job_id, idx, single_file_mode) ==
    IF single_file_mode THEN <<job_id>> ELSE <<job_id, idx>>

\* The paths create_job gives to the first k files of file_list.
TargetPaths(job_id, file_list, k) ==
    [i \in 1..k |-> target_name(job_id, i - 1, Len(file_list) = 1)]

\* The second loop of create_job on the directory d: store_bytes opens
\* each path with "wb" and writes the bytes read in the first loop; the
\* first k files are written (all of them when none raises).
StoreFiles(d, job_id, file_list, k) ==
    LET paths == TargetPaths(job_id, file_list, k)
    IN [p \in (DOMAIN d) \cup Range(paths) |->
          IF p \in Range(paths)
          THEN read(file_list[CHOOSE i \in 1..k :
                                 paths[i] = p /\ \A m \in 1..k : paths[m] = p => m <= i])
          ELSE d[p]]

\* create_job on valid files: the row is added as RECEIVED, the bytes are
\* stored, job.storage becomes the LIST of descriptors (paths holds the
\* path of each), file_meta keeps the checksum of each file, the status
\* becomes STORED, updated_at = datetime.now(), and only then the one
\* commit happens.  A user_id of "none" is NULL.
create_job(job_id, file_list, user_id, device_id, source) ==
    [id |-> job_id, user_id |-> user_id, device_id |-> device_id,
     source |-> source, status |-> "STORED", storage |-> "list",
     paths |-> TargetPaths(job_id, file_list, Len(file_list)),
     checksums |-> [i \in DOMAIN file_list |-> sha256(read(file_list[i]))],
     note_id |-> NULL, error_logs |-> <<>>, updated_at |-> utcnow(job_id, Epoch)]

(* -------------------- app/services/note_service.py -------------------- *)
\* A variant of the filter that lets every caller see a note without user_id.
_ownership_filter_Legacy(note, u) ==
    \/ note.user_id = u
    \/ note.user_id = "none"

\* _ownership_filter: the note's user_id is the caller, or it has none and
\* its device_id is the caller.
_ownership_filter(note, u) ==
    \/ note.user_id = u
    \/ note.user_id = "none" /\ note.device_id = u

\* A variant of the lookup without the ownership filter.
HasNote_AnyOwner(ns, n, u) == n \in DOMAIN ns /\ ~ns[n].is_archived

\* get_note_by_id: the row, if it exists, is the caller's and is not archived.
HasNote(ns, n, u) ==
    /\ n \in DOMAIN ns
    /\ _ownership_filter(ns[n], u)
    /\ ~ns[n].is_archived

\* The database as the note operations see and leave it, with the state
\* of the request's Session: "active", or "inactive" once a flush inside a
\* commit has raised and nobody has called rollback().
DB == [notes |-> notes, logs |-> deletion_logs, jobs |-> jobs,
       removed |-> removed, seq |-> noteSeq, clock |-> clock,
       session |-> "active"]

\* The flush of a commit raises: the database checks the length of a
\* value against its column (title is String(255), the schema puts no
\* bound on it).  PostgreSQL, the database that enforces foreign keys,
\* does; SQLite stores the value.  "long" is a title over 255 characters.
FlushRaises(update_data) ==
    /\ fkEnforced
    /\ "title" \in DOMAIN update_data
    /\ update_data.title = "long"

\* create_note: a row with a fresh id, created_at = updated_at = now.
create_note(db, u, title) ==
    LET now == db.clock + 1
        id  == db.seq + 1
    IN [db EXCEPT !.clock = now, !.seq = id,
           !.notes = With(@, id, [user_id |-> u, device_id |-> u,
                                  title |-> title, original_text |-> "t",
                                  is_favorite |-> FALSE,
                                  is_archived |-> FALSE,
                                  created_at |-> now, updated_at |-> now])]

\* update_note on a note get_note_by_id found: setattr for every key of
\* update_data, updated_at = now, commit.
update_note(db, n, patch) ==
    LET now == db.clock + 1
        old == db.notes[n]
        new == [f \in DOMAIN old |-> IF f \in DOMAIN patch THEN patch[f] ELSE old[f]]
    IN [db EXCEPT !.clock = now,
                  !.notes[n] = [new EXCEPT !.updated_at = now]]

\* set_favorite on a note get_note_by_id found.
set_favorite(db, n, value) ==
    LET now == db.clock + 1
    IN [db EXCEPT !.clock = now,
                  !.notes[n] = [@ EXCEPT !.is_favorite = value, !.updated_at = now]]

\* toggle_favorite on a note get_note_by_id found.
toggle_favorite(db, n) ==
    LET now == db.clock + 1
    IN [db EXCEPT !.clock = now,
                  !.notes[n] = [@ EXCEPT !.is_favorite = ~@, !.updated_at = now]]

\* What db.delete(note) does to upload_jobs: UploadJob.note is declared
\* with backref="upload_jobs" and no delete cascade, so the unit of work
\* sets note_id to NULL in every job that points at the note, in the same
\* flush as the DELETE.
NullifyNoteRefs(js, n) ==
    [j \in DOMAIN js |-> IF js[j].note_id = n
                         THEN [js[j] EXCEPT !.note_id = NULL] ELSE js[j]]

\* delete_note on a note get_note_by_id found: one DeletionLog row for the
\* caller, db.delete(note), one commit.
delete_note(db, n, u) ==
    LET now == db.clock + 1
    IN [db EXCEPT !.clock = now,
                  !.logs = Append(@, [note_id |-> n, user_id |-> u, deleted_at |-> now]),
                  !.notes = Without(@, {n}),
                  !.removed[n] = Append(@, [user_id |-> db.notes[n].user_id, at |-> now]),
                  !.jobs = NullifyNoteRefs(@, n)]

\* The variables take the values of db.
Store(db) ==
    /\ notes' = db.notes
    /\ deletion_logs' = db.logs
    /\ jobs' = db.jobs
    /\ removed' = db.removed
    /\ noteSeq' = db.seq
    /\ clock' = db.clock


(* ------------------------------- Init --------------------------------- *)
Init ==
    /\ users = Users
    /\ available \in BOOLEAN
    /\ fkEnforced \in BOOLEAN
    /\ jobs = <<>>
    /\ jobSeq = 0
    /\ hist = [j \in JobIds |-> <<>>]
    /\ task = [j \in JobIds |-> "none"]
    /\ notes = <<>>
    /\ noteSeq = 0
    /\ deletion_logs = <<>>
    /\ removed = [n \in NoteIds |-> <<>>]
    /\ clock = 0
    /\ resp = NoResp
    /\ cursor = NULL
    /\ known = {}
    /\ wall = 0
    /\ disk = <<>>
    /\ stream = NoStream

(* ------------- app/api/v1/endpoints/library.py: the jobs -------------- *)
\* A variant of the write of line 121 that sets a status before STORED.
Enqueue_Received(job) ==
    [job EXCEPT !.status = "RECEIVED",
                !.updated_at = func_now(job.id, job.updated_at)]

\* create_note_from_image, lines 121-123: job.status = "QUEUED"; commit.
\* The handler sets no updated_at: the column's onupdate=func.now() does.
Enqueue(job) ==
    [job EXCEPT !.status = "QUEUED",
                !.updated_at = func_now(job.id, job.updated_at)]

\* A variant of the comparison that admits one job more.
QuotaExceeded_Strict(js, u) ==
    count_active_jobs(js, u, NOTE_JOB_SOURCE) > MAX_CONCURRENT_NOTE_JOBS_PER_USER

\* The admission check of create_note_from_image (lines 103-109).
QuotaExceeded(js, u) ==
    count_active_jobs(js, u, NOTE_JOB_SOURCE) >= MAX_CONCURRENT_NOTE_JOBS_PER_USER

\* A variant of the dependency that lets every request through.
check_doubao_available_Off == TRUE

\* The dependency check_doubao_available of create_note_from_image: it
\* lets the request through when availability_status() is positive and
\* raises DoubaoServiceUnavailable (503) before the handler otherwise.
check_doubao_available == available

\* What a request to create_note_from_image or upload_image carries: the
\* list of its files.  Uploads are the requests of the pipeline's
\* specifications: no file, a file that create_job refuses, a file that
\* passes.  FileLists are all the lists of up to MAX_IMAGE_COUNT files
\* and one list that is longer.
MAX_IMAGE_COUNT == 2
Uploads == {<<>>, <<"badext">>, <<"ok">>}
FileLists ==
    UNION {[1..k -> FileKinds] : k \in 0..MAX_IMAGE_COUNT}
       \cup {[i \in 1..(MAX_IMAGE_COUNT + 1) |-> "ok"]}

\* POST /library/notes/from-image by user u with files.  The dependency
\* check_doubao_available rejects first; then a request without files (or
\* with too many); then the quota; then create_job validates the files,
\* stores them and commits the job as STORED (a store_bytes that raises
\* rolls the row back and the request fails); the handler commits QUEUED
\* and creates the background task.  Nothing awaits between the count and
\* the task creation.  stored is the number of files the request wrote.
CreateNoteFromImage(u, files) ==
    /\ u \in users
    /\ UNCHANGED <<users, available, fkEnforced, wall, stream, cursor, known, clock>>
    /\ UNCHANGED noteVars
    /\ LET id == jobSeq + 1
           refused(code, n) ==
              /\ resp' = [op |-> "from_image", user |-> u, files |-> files,
                          code |-> code, job |-> NULL, stored |-> n]
              /\ UNCHANGED <<jobs, hist, task>>
       IN IF ~check_doubao_available THEN refused(503, 0) /\ UNCHANGED <<jobSeq, disk>>
          ELSE IF Len(files) = 0 \/ Len(files) > MAX_IMAGE_COUNT
          THEN refused(400, 0) /\ UNCHANGED <<jobSeq, disk>>
          ELSE IF QuotaExceeded(jobs, u) THEN refused(429, 0) /\ UNCHANGED <<jobSeq, disk>>
          ELSE IF ~AllAccepted(files)
          THEN refused(400, StoredWhileChecking(files)) /\ UNCHANGED <<jobSeq, disk>>
          ELSE IF StoredBeforeFailure(files) < Len(files)
          THEN /\ jobSeq < MaxJobs
               /\ jobSeq' = id
               /\ disk' = StoreFiles(disk, id, files, StoredBeforeFailure(files))
               /\ refused(500, StoredBeforeFailure(files))
          ELSE LET stored == create_job(id, files, u, u, NOTE_JOB_SOURCE)
                   queued == Enqueue(stored)
               IN /\ jobSeq < MaxJobs
                  /\ jobSeq' = id
                  /\ disk' = StoreFiles(disk, id, files, Len(files))
                  /\ jobs' = With(jobs, id, queued)
                  /\ hist' = [hist EXCEPT ![id] = <<stored.status, queued.status>>]
                  /\ task' = [task EXCEPT ![id] = "scheduled"]
                  /\ resp' = [op |-> "from_image", user |-> u, files |-> files,
                              code |-> 202, job |-> id, stored |-> Len(files)]

(* ------------------ app/api/v1/endpoints/upload.py -------------------- *)
\* POST /upload by user u: create_job with source "upload_api"; the job
\* stays STORED, no task is created.
UploadImage(u, files) ==
    /\ u \in users
    /\ UNCHANGED <<users, available, fkEnforced, wall, stream, cursor, known, clock, task>>
    /\ UNCHANGED noteVars
    /\ LET id == jobSeq + 1
       IN IF Len(files) = 0 \/ Len(files) > MAX_IMAGE_COUNT \/ ~AllAccepted(files)
          THEN /\ resp' = [op |-> "upload", user |-> u, files |-> files, code |-> 400,
                           job |-> NULL,
                           stored |-> IF Len(files) \in 1..MAX_IMAGE_COUNT
                                      THEN StoredWhileChecking(files) ELSE 0]
               /\ UNCHANGED <<jobs, jobSeq, hist, disk>>
          ELSE IF StoredBeforeFailure(files) < Len(files)
          THEN /\ jobSeq < MaxJobs
               /\ jobSeq' = id
               /\ disk' = StoreFiles(disk, id, files, StoredBeforeFailure(files))
               /\ resp' = [op |-> "upload", user |-> u, files |-> files, code |-> 500,
                           job |-> NULL, stored |-> StoredBeforeFailure(files)]
               /\ UNCHANGED <<jobs, hist>>
          ELSE LET stored == create_job(id, files, u, u, "upload_api")
               IN /\ jobSeq < MaxJobs
                  /\ jobSeq' = id
                  /\ disk' = StoreFiles(disk, id, files, Len(files))
                  /\ jobs' = With(jobs, id, stored)
                  /\ hist' = [hist EXCEPT ![id] = <<stored.status>>]
                  /\ resp' = [op |-> "upload", user |-> u, files |-> files, code |-> 200,
                              job |-> id, stored |-> Len(files)]

\* The check of get_job (line 111) and of stream_job_progress (lines 146
\* and 159): `job.user_id and job.user_id != current_user.id` raises 403
\* or ends the stream.
Forbidden(job, u) == job.user_id # "none" /\ job.user_id # u

\* _serialize_job: the snapshot a stream compares and sends.
_serialize_job(job) ==
    [id |-> job.id, status |-> job.status,
     updated_at |-> format_local(job.updated_at),
     note_id |-> job.note_id, error_logs |-> job.error_logs]

\* GET /upload/jobs/{job_id} by user u: 404 without the row, 403 when the
\* check refuses, else the row.
GetJob(u, j) ==
    /\ u \in users
    /\ resp' = [op |-> "get_job", user |-> u, job |-> j,
                code |-> IF j \notin DOMAIN jobs THEN 404
                         ELSE IF Forbidden(jobs[j], u) THEN 403 ELSE 200,
                body |-> IF j \in DOMAIN jobs /\ ~Forbidden(jobs[j], u)
                         THEN {jobs[j]} ELSE {}]
    /\ UNCHANGED <<users, available, fkEnforced, wall, disk, stream, cursor, known, clock>>
    /\ UNCHANGED <<pipelineVars, noteVars>>

\* GET /upload/jobs/{job_id}/stream by user u, lines 142-147 and 174: 404
\* without the row, 403 when the check refuses, else the response starts
\* and event_generator has not run yet.  The model follows one stream at
\* a time; a new one can be opened when the last one has ended.
StreamOpen(u, j) ==
    /\ u \in users
    /\ stream.state # "open"
    /\ IF j \notin DOMAIN jobs \/ Forbidden(jobs[j], u)
       THEN /\ resp' = [op |-> "stream", user |-> u, job |-> j,
                        code |-> IF j \notin DOMAIN jobs THEN 404 ELSE 403]
            /\ stream' = NoStream
       ELSE /\ resp' = [op |-> "stream", user |-> u, job |-> j, code |-> 200]
            /\ stream' = [state |-> "open", user |-> u, job |-> j,
                          previous |-> <<>>, events |-> <<>>]
    /\ UNCHANGED <<users, available, fkEnforced, wall, disk, cursor, known, clock>>
    /\ UNCHANGED <<pipelineVars, noteVars>>

\* A variant of the comparison of line 165 that finds every snapshot new.
Changed_Always(snapshot, previous_snapshot) == TRUE

\* Line 165: snapshot != previous_snapshot (previous_snapshot starts as None).
Changed(snapshot, previous_snapshot) == snapshot # previous_snapshot

\* A variant of the test of line 169 that knows PERSISTED only.
StreamEnds_PersistedOnly(snapshot) == snapshot.status = "PERSISTED"

\* Line 169: snapshot["status"] in TERMINAL_JOB_STATUSES ends the loop.
StreamEnds(snapshot) == snapshot.status \in TERMINAL_JOB_STATUSES

\* One round of the loop of event_generator (lines 151-172), from the
\* read of the row to the sleep or the break: an error event and the end
\* when the row is gone or the check refuses; else the snapshot is sent
\* if it differs from the last one sent, and the stream ends if its
\* status is terminal.
StreamTick ==
    /\ stream.state = "open"
    /\ LET j == stream.job
           send(event, data) == Append(stream.events, [event |-> event, data |-> data])
       IN IF j \notin DOMAIN jobs
          THEN stream' = [stream EXCEPT !.state = "closed",
                                        !.events = send("error", "missing")]
          ELSE IF Forbidden(jobs[j], stream.user)
          THEN stream' = [stream EXCEPT !.state = "closed",
                                        !.events = send("error", "forbidden")]
          ELSE LET snapshot == _serialize_job(jobs[j])
               IN stream' =
                    [stream EXCEPT
                       !.previous = IF Changed(snapshot, @) THEN snapshot ELSE @,
                       !.events = IF Changed(snapshot, stream.previous)
                                  THEN send("message", snapshot) ELSE @,
                       !.state = IF StreamEnds(snapshot) THEN "closed" ELSE "open"]
    /\ resp' = NoResp
    /\ UNCHANGED <<users, available, fkEnforced, wall, disk, cursor, known, clock>>
    /\ UNCHANGED <<pipelineVars, noteVars>>

\* A variant in which dropping the stream of job j cancels the job's task.
AfterDisconnect_CancelsTask(tasks, j) == [tasks EXCEPT ![j] = "done"]

\* The background tasks after the connection of a stream on job j is
\* dropped.  The server cancels the task that runs the response;
\* process_note_job runs in a task of its own (asyncio.create_task,
\* library.py:125), which nothing cancels.
AfterDisconnect(tasks, j) == tasks

\* The client drops the connection: the server cancels event_generator at
\* its await (the sleep of line 172), and nothing more is sent.
StreamDisconnect ==
    /\ stream.state = "open"
    /\ stream' = [stream EXCEPT !.state = "aborted"]
    /\ task' = AfterDisconnect(task, stream.job)
    /\ resp' = NoResp
    /\ UNCHANGED <<users, available, fkEnforced, wall, disk, cursor, known, clock>>
    /\ UNCHANGED <<jobs, jobSeq, hist, noteVars>>

\* The wall clock reaches the next second.
MaxSeconds == 1
Tick ==
    /\ wall < MaxSeconds
    /\ wall' = wall + 1
    /\ resp' = NoResp
    /\ UNCHANGED <<users, available, fkEnforced, disk, stream, cursor, known, clock>>
    /\ UNCHANGED <<pipelineVars, noteVars>>

(* ------------------ tests/test_async_pipeline.py ---------------------- *)
\* The path in the descriptor of the rows the tests insert ("fake-path"):
\* no file is written there.
FakePath == <<0>>

\* The way the repository's tests drive the worker: a row is inserted as
\* STORED with source "test" and storage in the single-descriptor shape (a
\* dict with a path) or with no descriptor, and process_note_job is called
\* on it directly.  The row gets no updated_at: the server default
\* func.now() fills it.
ProcessStoredJob(u, shape) ==
    /\ u \in users
    /\ shape \in {"dict", "empty"}
    /\ jobSeq < MaxJobs
    /\ LET id  == jobSeq + 1
           row == [create_job(id, <<>>, u, u, "test") EXCEPT
                     !.storage = shape,
                     !.paths = IF shape = "dict" THEN <<FakePath>> ELSE <<>>,
                     !.updated_at = func_now(id, Epoch)]
       IN /\ jobSeq' = id
          /\ jobs' = With(jobs, id, row)
          /\ hist' = [hist EXCEPT ![id] = <<"STORED">>]
          /\ task' = [task EXCEPT ![id] = "scheduled"]
    /\ resp' = NoResp
    /\ UNCHANGED <<users, available, fkEnforced, wall, disk, stream, cursor, known, clock>>
    /\ UNCHANGED noteVars

(* ------------- app/services/pipeline_runner.py: the task -------------- *)
\* A variant of the first stretch that asks for the collaborator only when
\* it calls it.
WorkerPickup_LateCheck(job) ==
    IF job.storage = "list" THEN OnUnexpected(job)
    ELSE IF job.storage = "empty" THEN FailDoubao(job)
    ELSE _update_status(job, "AI_PENDING")

\* The row after the first stretch of process_note_job (lines 31-52), up
\* to the await of the collaborator call.  (job.storage or {}).get("path")
\* raises AttributeError on a list of descriptors, which the catch-all
\* handler turns into FAILED/UNEXPECTED; no descriptor, or a collaborator
\* that is not available, is FAILED/DOUBAO; otherwise AI_PENDING.
WorkerPickup(job) ==
    IF job.storage = "list" THEN OnUnexpected(job)
    ELSE IF job.storage = "empty" THEN FailDoubao(job)
    ELSE IF ~available THEN FailDoubao(job)
    ELSE _update_status(job, "AI_PENDING")

WorkerStart(j) ==
    /\ task[j] = "scheduled"
    /\ IF j \notin DOMAIN jobs
       THEN /\ task' = [task EXCEPT ![j] = "done"]
            /\ UNCHANGED <<jobs, hist>>
       ELSE LET job == WorkerPickup(jobs[j])
            IN /\ jobs' = [jobs EXCEPT ![j] = job]
               /\ hist' = [hist EXCEPT ![j] = Append(@, job.status)]
               /\ task' = [task EXCEPT ![j] =
                             IF job.status = "AI_PENDING" THEN "calling" ELSE "done"]
    /\ resp' = NoResp
    /\ UNCHANGED <<users, available, fkEnforced, wall, disk, stream, cursor, known, jobSeq, clock>>
    /\ UNCHANGED noteVars

\* What the collaborator call and the code after it can do:
\*   "note"          the call returns a payload, the note is created
\*   "service_error" the call raises DoubaoServiceError (lines 61-64)
\*   "crash"         the call raises anything else (lines 65-69)
\*   "bad_payload"   the call returns, and lines 71-94 raise on what it returned
\*   "note_rejected" AI_DONE is committed, and create_note raises
Outcomes == {"note", "service_error", "crash", "bad_payload", "note_rejected"}

\* The second stretch of process_note_job (lines 54-135), from the return
\* of the collaborator call to the end.  When the row is gone (the account
\* was deleted meanwhile) the first commit affects no row and raises, and
\* the catch-all handler finds no job: nothing is written.
WorkerResume(j, outcome) ==
    /\ task[j] = "calling"
    /\ task' = [task EXCEPT ![j] = "done"]
    /\ resp' = NoResp
    /\ UNCHANGED <<users, available, fkEnforced, wall, stream, cursor, known, jobSeq>>
    /\ IF j \notin DOMAIN jobs
       THEN UNCHANGED <<jobs, hist, notes, noteSeq, deletion_logs, removed, clock,
                        disk>>
       ELSE LET job  == jobs[j]
                done == _update_status(job, "AI_DONE")
                failed(row, statuses) ==
                    /\ jobs' = [jobs EXCEPT ![j] = row]
                    /\ hist' = [hist EXCEPT ![j] = @ \o statuses]
                    /\ UNCHANGED <<notes, noteSeq, deletion_logs, removed, clock, disk>>
            IN CASE outcome \in {"service_error", "crash"} ->
                      failed(FailDoubao(job), <<"FAILED">>)
                 [] outcome = "bad_payload" ->
                      failed(OnUnexpected(job), <<"FAILED">>)
                 [] outcome = "note_rejected" ->
                      failed(OnUnexpected(done), <<done.status, "FAILED">>)
                 [] outcome = "note" ->
                      LET db    == create_note(DB, job.user_id, "a")
                          saved == _update_status([done EXCEPT !.note_id = db.seq],
                                                  "PERSISTED")
                          final == AfterCleanup(saved)
                      IN /\ noteSeq < MaxNotes
                         /\ clock < MaxClock
                         /\ Store([db EXCEPT !.jobs[j] = final])
                         /\ hist' = [hist EXCEPT ![j] =
                                       @ \o <<done.status, saved.status>>
                                         \o (IF final.status = saved.status
                                             THEN <<>> ELSE <<final.status>>)]
                         /\ disk' = Unlink(disk, job.paths[1])


(* -------------- app/services/note_service.py: the sync ---------------- *)
\* ORDER BY key ASC over the rows S (keys are functions of the row id).
RECURSIVE OrderBy(_, _)
OrderBy(S, key) ==
    IF S = {} THEN <<>>
    ELSE LET m == CHOOSE x \in S :
                    \A y \in S : key[x] < key[y] \/ (key[x] = key[y] /\ x <= y)
         IN <<m>> \o OrderBy(S \ {m}, key)

\* LIMIT k.
Limit(s, k) == SubSeq(s, 1, IF Len(s) < k THEN Len(s) ELSE k)

\* get_notes_updated_since(user_id, since, until=until): the ids of the
\* caller's notes, not archived, with since < updated_at <= until, by
\* updated_at ascending, at most `limit` of them.
get_notes_updated_since(ns, u, since, until) ==
    Limit(OrderBy({n \in DOMAIN ns : /\ _ownership_filter(ns[n], u)
                                     /\ ~ns[n].is_archived
                                     /\ ns[n].updated_at > since
                                     /\ ns[n].updated_at <= until},
                  [n \in DOMAIN ns |-> ns[n].updated_at]),
          SyncLimit)

\* get_deleted_note_ids_since(user_id, since, until=until): the note ids of
\* the caller's deletion_logs rows with since < deleted_at <= until, by
\* deleted_at ascending, at most `limit` of them.
get_deleted_note_ids_since(logs, u, since, until) ==
    LET rows == Limit(OrderBy({i \in DOMAIN logs : /\ logs[i].user_id = u
                                                   /\ logs[i].deleted_at > since
                                                   /\ logs[i].deleted_at <= until},
                              [i \in DOMAIN logs |-> logs[i].deleted_at]),
                      SyncLimit)
    IN [k \in DOMAIN rows |-> logs[rows[k]].note_id]

\* sync_notes: until is read from the clock first; no since means
\* 2000-01-01, which is before every timestamp.
sync_notes(db, u, since) ==
    LET until == db.clock + 1
    IN [user |-> u, since |-> since, server_time |-> until,
        updated     |-> get_notes_updated_since(db.notes, u, since, until),
        deleted_ids |-> get_deleted_note_ids_since(db.logs, u, since, until)]

\* The full payload of note n (NoteResponse) and its summary (NoteSummary,
\* loaded with SUMMARY_FIELDS: no original_text).
Payload(ns, n) == [id |-> n] @@ ns[n]
Summary(ns, n) ==
    [id |-> n] @@ [f \in DOMAIN ns[n] \ {"original_text"} |-> ns[n][f]]

\* OFFSET k.
Offset(s, k) == SubSeq(s, k + 1, Len(s))

\* get_user_notes(user_id, skip, limit): the caller's notes, not archived,
\* by created_at descending, from the skip-th on, at most limit of them.
get_user_notes(ns, u, skip, limit) ==
    Limit(Offset(OrderBy({n \in DOMAIN ns : _ownership_filter(ns[n], u) /\ ~ns[n].is_archived},
                         [n \in DOMAIN ns |-> 0 - ns[n].created_at]),
                 skip),
          limit)

\* ilike('%q%') on the strings of the model, none of which is part of
\* another one.
ILike(text, q) == text = q

\* search_notes(user_id, query): the caller's notes, not archived, whose
\* title or original_text matches, by created_at descending.
search_notes(ns, u, q) ==
    OrderBy({n \in DOMAIN ns : /\ _ownership_filter(ns[n], u)
                               /\ ~ns[n].is_archived
                               /\ (ILike(ns[n].title, q) \/ ILike(ns[n].original_text, q))},
            [n \in DOMAIN ns |-> 0 - ns[n].created_at])

\* A variant of get_notes_by_ids without the ownership filter.
get_notes_by_ids_AnyOwner(ns, u, note_ids) ==
    {n \in DOMAIN ns : n \in note_ids /\ ~ns[n].is_archived}

\* get_notes_by_ids(user_id, note_ids): the rows with id IN note_ids that
\* are the caller's and not archived.  The query has no ORDER BY: the
\* result is the set of its rows.
get_notes_by_ids(ns, u, note_ids) ==
    {n \in DOMAIN ns : /\ n \in note_ids
                       /\ _ownership_filter(ns[n], u)
                       /\ ~ns[n].is_archived}

(* ------------- app/api/v1/endpoints/library.py: the notes ------------- *)
\* NoteService.create_note called for user u (by the worker, and by the
\* tests directly).
CreateNote(u) ==
    /\ u \in users
    /\ noteSeq < MaxNotes
    /\ clock < MaxClock
    /\ Store(create_note(DB, u, "a"))
    /\ resp' = [op |-> "create", user |-> u, code |-> 200, note |-> noteSeq + 1]
    /\ UNCHANGED <<users, available, fkEnforced, wall, disk, stream, cursor, known, jobSeq, hist, task>>

\* The update_data a PUT /notes/{id} or an update_note mutation can carry:
\* the fields of NoteUpdate that are not None.
Patches == {<<>>, [title |-> "b"], [is_favorite |-> TRUE]}

\* PUT /library/notes/{n} by u.
UpdateNote(u, n, patch) ==
    /\ u \in users
    /\ clock < MaxClock
    /\ IF HasNote(notes, n, u)
       THEN /\ Store(update_note(DB, n, patch))
            /\ resp' = [op |-> "update", user |-> u, code |-> 200, note |-> n]
       ELSE /\ resp' = [op |-> "update", user |-> u, code |-> 404, note |-> n]
            /\ UNCHANGED <<jobs, clock>>
            /\ UNCHANGED noteVars
    /\ UNCHANGED <<users, available, fkEnforced, wall, disk, stream, cursor, known, jobSeq, hist, task>>

\* POST /library/notes/{n}/favorite by u.
ToggleFavorite(u, n) ==
    /\ u \in users
    /\ clock < MaxClock
    /\ IF HasNote(notes, n, u)
       THEN /\ Store(toggle_favorite(DB, n))
            /\ resp' = [op |-> "favorite", user |-> u, code |-> 200, note |-> n]
       ELSE /\ resp' = [op |-> "favorite", user |-> u, code |-> 404, note |-> n]
            /\ UNCHANGED <<jobs, clock>>
            /\ UNCHANGED noteVars
    /\ UNCHANGED <<users, available, fkEnforced, wall, disk, stream, cursor, known, jobSeq, hist, task>>

\* DELETE /library/notes/{n} by u.
DeleteNote(u, n) ==
    /\ u \in users
    /\ clock < MaxClock
    /\ IF HasNote(notes, n, u)
       THEN /\ Store(delete_note(DB, n, u))
            /\ resp' = [op |-> "delete", user |-> u, code |-> 200, note |-> n]
       ELSE /\ resp' = [op |-> "delete", user |-> u, code |-> 404, note |-> n]
            /\ UNCHANGED <<jobs, clock>>
            /\ UNCHANGED noteVars
    /\ UNCHANGED <<users, available, fkEnforced, wall, disk, stream, cursor, known, jobSeq, hist, task>>

\* GET /library/notes/sync?since=... by u (since = 0: not given).
SyncNotes(u, since) ==
    /\ u \in users
    /\ clock < MaxClock
    /\ since \in 0..clock
    /\ LET r == sync_notes(DB, u, since)
       IN /\ resp' = [op |-> "sync", code |-> 200] @@ r
          /\ clock' = r.server_time
    /\ UNCHANGED <<users, available, fkEnforced, wall, disk, stream, cursor, known, jobs, jobSeq, hist, task>>
    /\ UNCHANGED noteVars

\* GET /library/notes/{n} by u.
GetNote(u, n) ==
    /\ u \in users
    /\ resp' = IF HasNote(notes, n, u)
               THEN [op |-> "get", user |-> u, code |-> 200, note |-> n,
                     notes |-> {Payload(notes, n)}]
               ELSE [op |-> "get", user |-> u, code |-> 404, note |-> n, notes |-> {}]
    /\ UNCHANGED <<users, available, fkEnforced, wall, disk, stream, cursor, known, clock>>
    /\ UNCHANGED <<pipelineVars, noteVars>>

\* GET /library/notes?skip=..&limit=..&favorite_only=.. by u (no category).
DefaultLimit == 100
ListNotes(u, skip, limit, favorite_only) ==
    /\ u \in users
    /\ LET found == get_user_notes(notes, u, skip, limit)
           kept  == SelectSeq(found, LAMBDA n : ~favorite_only \/ notes[n].is_favorite)
       IN resp' = [op |-> "list", user |-> u, code |-> 200, skip |-> skip,
                   limit |-> limit, favorite_only |-> favorite_only,
                   notes |-> [k \in DOMAIN kept |-> Summary(notes, kept[k])],
                   total |-> Len(kept)]
    /\ UNCHANGED <<users, available, fkEnforced, wall, disk, stream, cursor, known, clock>>
    /\ UNCHANGED <<pipelineVars, noteVars>>

\* GET /library/search?q=..&note_id=.. by u ("none", NULL: not given).
SearchNotes(u, q, n) ==
    /\ u \in users
    /\ resp' =
         IF n # NULL
         THEN IF HasNote(notes, n, u)
              THEN [op |-> "search", user |-> u, q |-> q, note |-> n, code |-> 200,
                    notes |-> <<Summary(notes, n)>>, total |-> 1]
              ELSE [op |-> "search", user |-> u, q |-> q, note |-> n, code |-> 404, notes |-> <<>>, total |-> 0]
         ELSE IF q = "none"
         THEN [op |-> "search", user |-> u, q |-> q, note |-> n, code |-> 400, notes |-> <<>>, total |-> 0]
         ELSE LET found == search_notes(notes, u, q)
              IN IF found = <<>>
                 THEN [op |-> "search", user |-> u, q |-> q, note |-> n, code |-> 404, notes |-> <<>>, total |-> 0]
                 ELSE [op |-> "search", user |-> u, q |-> q, note |-> n, code |-> 200,
                       notes |-> [k \in DOMAIN found |-> Summary(notes, found[k])],
                       total |-> Len(found)]
    /\ UNCHANGED <<users, available, fkEnforced, wall, disk, stream, cursor, known, clock>>
    /\ UNCHANGED <<pipelineVars, noteVars>>

\* POST /library/notes/batch by u with the ids note_ids (NoteBatchRequest:
\* at least one id).
BatchGetNotes(u, note_ids) ==
    /\ u \in users
    /\ note_ids # {}
    /\ LET found == get_notes_by_ids(notes, u, note_ids)
       IN resp' = [op |-> "batch", user |-> u, code |-> 200, note_ids |-> note_ids,
                   notes |-> {Payload(notes, n) : n \in found},
                   total |-> Cardinality(found)]
    /\ UNCHANGED <<users, available, fkEnforced, wall, disk, stream, cursor, known, clock>>
    /\ UNCHANGED <<pipelineVars, noteVars>>

\* The device of Client refreshes: GET /library/notes/sync with no since
\* the first time (the handler then takes 2000-01-01, before every clock
\* reading) and the server_time it kept afterwards; it stores every
\* updated summary, drops every id of deleted_ids and keeps server_time.
Client == "u1"

ClientSync ==
    /\ Client \in users
    /\ clock < MaxClock
    /\ LET r == sync_notes(DB, Client, cursor)
       IN /\ resp' = [op |-> "client_sync", code |-> 200] @@ r
          /\ clock' = r.server_time
          /\ known' = (known \cup Range(r.updated)) \ Range(r.deleted_ids)
          /\ cursor' = r.server_time
    /\ UNCHANGED <<users, available, fkEnforced, wall, disk, stream, jobs, jobSeq, hist, task>>
    /\ UNCHANGED noteVars

(* ----------------- app/services/user_service.py ----------------------- *)
\* The bulk DELETE of the user's notes violates upload_jobs.note_id ->
\* notes.id when a job still points at one of them and the database
\* enforces foreign keys: the request fails and nothing is deleted.
DeleteUserBlocked(u) ==
    /\ fkEnforced
    /\ \E j \in DOMAIN jobs :
          /\ jobs[j].note_id \in DOMAIN notes
          /\ notes[jobs[j].note_id].user_id = u

\* DELETE /auth/me by u: delete_user removes the notes whose user_id is u
\* with one bulk DELETE (no DeletionLog row), then the upload jobs of u,
\* then the user, in one commit.
DeleteUser(u) ==
    /\ u \in users
    /\ UNCHANGED <<available, fkEnforced, wall, disk, stream, cursor, known, jobSeq, hist, task, noteSeq,
                   deletion_logs, clock>>
    /\ IF DeleteUserBlocked(u)
       THEN /\ resp' = [op |-> "delete_user", user |-> u, code |-> 500]
            /\ UNCHANGED <<users, jobs, notes, removed>>
       ELSE LET gone == {n \in DOMAIN notes : notes[n].user_id = u}
            IN /\ notes' = Without(notes, gone)
               /\ removed' = [n \in NoteIds |-> IF n \in gone
                                                THEN Append(removed[n], [user_id |-> u, at |-> clock])
                                                ELSE removed[n]]
               /\ jobs' = Without(jobs, {j \in DOMAIN jobs : jobs[j].user_id = u})
               /\ users' = users \ {u}
               /\ resp' = [op |-> "delete_user", user |-> u, code |-> 200]


(* --------- app/api/v1/endpoints/library.py: apply_note_mutations ------ *)
MaxBatch   == 2    \* mutations in one batch
MaxTargets == 2    \* note ids a batch names
Targets == 1..MaxTargets

\* A NoteMutationItem: patch is "none" or an update_data, is_favorite is
\* "none", TRUE or FALSE.  op_id is the item's position in the batch.
NoPatch == [given |-> FALSE, data |-> <<>>]
Mutations ==
    [type : {"update_note"}, note_id : Targets, is_favorite : {"none"},
     patch : {NoPatch} \cup {[given |-> TRUE, data |-> d] :
                            d \in {<<>>, [title |-> "b"], [title |-> "long"]}}]
    \cup
    [type : {"set_favorite"}, note_id : Targets, is_favorite : {"none", "true"},
     patch : {NoPatch}]
    \cup
    [type : {"delete_note"}, note_id : Targets, is_favorite : {"none"},
     patch : {NoPatch}]

Batches == UNION {[1..k -> Mutations] : k \in 1..MaxBatch}

Result(i, m, status, code, at) ==
    [op_id |-> i, type |-> m.type, note_id |-> m.note_id,
     status |-> status, code |-> code, updated_at |-> at]

\* A variant of the pass that writes the DeletionLog row of delete_note
\* before it looks the note up.
ApplyMutation_TombstoneFirst(db, u, i, m) ==
    CASE m.type = "update_note" ->
           IF ~m.patch.given \/ DOMAIN m.patch.data = {}
           THEN [db |-> db, result |-> Result(i, m, "invalid", 422, NULL)]
           ELSE IF db.session = "inactive"
           THEN [db |-> db, result |-> Result(i, m, "failed", 500, NULL)]
           ELSE IF ~HasNote(db.notes, m.note_id, u)
           THEN [db |-> db, result |-> Result(i, m, "not_found", 404, NULL)]
           ELSE IF FlushRaises(m.patch.data)
           THEN [db |-> [db EXCEPT !.clock = @ + 1, !.session = "inactive"],
                 result |-> Result(i, m, "failed", 500, NULL)]
           ELSE LET d == update_note(db, m.note_id, m.patch.data)
                IN [db |-> d,
                    result |-> Result(i, m, "applied", 200, d.notes[m.note_id].updated_at)]
      [] m.type = "set_favorite" ->
           IF m.is_favorite = "none"
           THEN [db |-> db, result |-> Result(i, m, "invalid", 422, NULL)]
           ELSE IF db.session = "inactive"
           THEN [db |-> db, result |-> Result(i, m, "failed", 500, NULL)]
           ELSE IF ~HasNote(db.notes, m.note_id, u)
           THEN [db |-> db, result |-> Result(i, m, "not_found", 404, NULL)]
           ELSE LET d == set_favorite(db, m.note_id, m.is_favorite = "true")
                IN [db |-> d,
                    result |-> Result(i, m, "applied", 200, d.notes[m.note_id].updated_at)]
      [] m.type = "delete_note" ->
           IF db.session = "inactive"
           THEN [db |-> db, result |-> Result(i, m, "failed", 500, NULL)]
           ELSE IF ~HasNote(db.notes, m.note_id, u)
           THEN [db |-> [db EXCEPT
                           !.clock = @ + 1,
                           !.logs = Append(@, [note_id |-> m.note_id, user_id |-> u,
                                               deleted_at |-> db.clock + 1])],
                 result |-> Result(i, m, "not_found", 404, NULL)]
           ELSE [db |-> delete_note(db, m.note_id, u),
                 result |-> Result(i, m, "applied", 200, NULL)]

\* One pass of the loop of apply_note_mutations for mutation m (the i-th)
\* on the database db: the database it leaves and the result it appends.
\* An exception of the pass is caught and reported as failed/500; the
\* handler does not roll the Session back, so once a flush has raised,
\* every later statement of the request raises as well.
ApplyMutation(db, u, i, m) ==
    CASE m.type = "update_note" ->
           IF ~m.patch.given \/ DOMAIN m.patch.data = {}
           THEN [db |-> db, result |-> Result(i, m, "invalid", 422, NULL)]
           ELSE IF db.session = "inactive"
           THEN [db |-> db, result |-> Result(i, m, "failed", 500, NULL)]
           ELSE IF ~HasNote(db.notes, m.note_id, u)
           THEN [db |-> db, result |-> Result(i, m, "not_found", 404, NULL)]
           ELSE IF FlushRaises(m.patch.data)
           THEN [db |-> [db EXCEPT !.clock = @ + 1, !.session = "inactive"],
                 result |-> Result(i, m, "failed", 500, NULL)]
           ELSE LET d == update_note(db, m.note_id, m.patch.data)
                IN [db |-> d,
                    result |-> Result(i, m, "applied", 200, d.notes[m.note_id].updated_at)]
      [] m.type = "set_favorite" ->
           IF m.is_favorite = "none"
           THEN [db |-> db, result |-> Result(i, m, "invalid", 422, NULL)]
           ELSE IF db.session = "inactive"
           THEN [db |-> db, result |-> Result(i, m, "failed", 500, NULL)]
           ELSE IF ~HasNote(db.notes, m.note_id, u)
           THEN [db |-> db, result |-> Result(i, m, "not_found", 404, NULL)]
           ELSE LET d == set_favorite(db, m.note_id, m.is_favorite = "true")
                IN [db |-> d,
                    result |-> Result(i, m, "applied", 200, d.notes[m.note_id].updated_at)]
      [] m.type = "delete_note" ->
           IF db.session = "inactive"
           THEN [db |-> db, result |-> Result(i, m, "failed", 500, NULL)]
           ELSE IF ~HasNote(db.notes, m.note_id, u)
           THEN [db |-> db, result |-> Result(i, m, "not_found", 404, NULL)]
           ELSE [db |-> delete_note(db, m.note_id, u),
                 result |-> Result(i, m, "applied", 200, NULL)]

\* The loop over body.mutations from the i-th on: each mutation runs on
\* the database the ones before it left.
RECURSIVE ApplyFrom(_, _, _, _, _)
ApplyFrom(db, u, batch, i, results) ==
    IF i > Len(batch) THEN [db |-> db, results |-> results]
    ELSE LET r == ApplyMutation(db, u, i, batch[i])
         IN ApplyFrom(r.db, u, batch, i + 1, Append(results, r.result))

applied_count_NotFailed(results) ==
    Cardinality({i \in DOMAIN results : results[i].status # "failed"})

\* applied_count: the results with status applied.
applied_count(results) ==
    Cardinality({i \in DOMAIN results : results[i].status = "applied"})

\* POST /library/notes/mutations by u.
ApplyNoteMutations(u, batch) ==
    /\ u \in users
    /\ LET r       == ApplyFrom(DB, u, batch, 1, <<>>)
           applied == applied_count(r.results)
           now     == r.db.clock + 1
       IN /\ now <= MaxClock
          /\ Store([r.db EXCEPT !.clock = now])
          /\ resp' = [op |-> "mutations", user |-> u, code |-> 200, batch |-> batch,
                      results |-> r.results, applied_count |-> applied,
                      failed_count |-> Len(r.results) - applied,
                      server_time |-> now]
    /\ UNCHANGED <<users, available, fkEnforced, wall, disk, stream, cursor, known, jobSeq, hist, task>>

(* ------------------------------ Next ---------------------------------- *)
\* The upload-job pipeline with the requests that touch its rows.
Next ==
    \/ \E u \in Users, f \in Uploads : CreateNoteFromImage(u, f)
    \/ \E u \in Users, f \in Uploads : UploadImage(u, f)
    \/ \E u \in Users, shape \in {"dict", "empty"} : ProcessStoredJob(u, shape)
    \/ \E j \in JobIds : WorkerStart(j)
    \/ \E j \in JobIds, o \in Outcomes : WorkerResume(j, o)
    \/ \E u \in Users, n \in NoteIds : DeleteNote(u, n)
    \/ \E u \in Users : DeleteUser(u)

Spec == Init /\ [][Next]_vars

\* Submissions and their workers alone, under the scheduling of the event
\* loop: a request that arrived is handled and a task that was created is
\* run, so as long as a step is possible one is taken.
NextAdmission ==
    \/ \E u \in Users, f \in Uploads : CreateNoteFromImage(u, f)
    \/ \E j \in JobIds : WorkerStart(j)

SpecAdmission == Init /\ [][NextAdmission]_vars /\ WF_vars(NextAdmission)

\* The submissions of Client with every list of files, and their workers,
\* for as long as fewer than MaxUploads job ids are used.
MaxUploads == 2
NextUpload ==
    \/ \E f \in FileLists : jobSeq < MaxUploads /\ CreateNoteFromImage(Client, f)
    \/ \E f \in FileLists : jobSeq < MaxUploads /\ UploadImage(Client, f)
    \/ \E j \in JobIds : WorkerStart(j)

SpecUpload == Init /\ [][NextUpload]_vars

\* The note store and its sync: notes are created by create_note as the
\* worker calls it, changed and deleted by the owner's devices, and read
\* by sync requests and by the refreshing device of Client.
InitNotes == Init /\ available /\ ~fkEnforced

NextSync ==
    \/ ClientSync
    \/ \E u \in Users : CreateNote(u)
    \/ \E u \in Users, n \in NoteIds, p \in Patches : UpdateNote(u, n, p)
    \/ \E u \in Users, n \in NoteIds : ToggleFavorite(u, n)
    \/ \E u \in Users, n \in NoteIds : DeleteNote(u, n)
    \/ \E u \in Users, since \in 0..MaxClock : SyncNotes(u, since)

SpecSync == InitNotes /\ [][NextSync]_vars

\* The note store under mutation replay: both users own notes (as many as
\* a batch can name), the device of Client replays batches.
\* create_note for a note that a batch can name.
CreateTargetNote(u) == noteSeq < MaxTargets /\ CreateNote(u)

NextMutations ==
    \/ \E u \in Users : CreateTargetNote(u)
    \/ \E b \in Batches : ApplyNoteMutations(Client, b)

SpecMutations == InitNotes /\ [][NextMutations]_vars

\* The progress stream next to the pipeline.  The table may hold a
\* device-only job from the start: a row create_job committed for
\* user_id=None and the device_id of a user.  Client submits jobs, which
\* their workers drive, deletes notes and the account, and the second
\* passes; one stream at a time is opened, polled and dropped, by either
\* user.
MaxStreamJobs == 2
DeviceJob(d) == create_job(1, <<"ok">>, "none", d, "upload_api")

InitStream ==
    /\ users = Users
    /\ available \in BOOLEAN
    /\ fkEnforced \in BOOLEAN
    /\ wall = 0
    /\ \/ /\ hist = [j \in JobIds |-> <<>>]
          /\ jobs = <<>> /\ jobSeq = 0 /\ disk = <<>>
       \/ \E d \in Users :
             /\ hist = [j \in JobIds |-> IF j = 1 THEN <<"STORED">> ELSE <<>>]
             /\ jobs = With(<<>>, 1, [DeviceJob(d) EXCEPT !.updated_at = [sec |-> 0, sub |-> 1]])
             /\ jobSeq = 1
             /\ disk = StoreFiles(<<>>, 1, <<"ok">>, 1)
    /\ task = [j \in JobIds |-> "none"]
    /\ notes = <<>>
    /\ noteSeq = 0
    /\ deletion_logs = <<>>
    /\ removed = [n \in NoteIds |-> <<>>]
    /\ clock = 0
    /\ resp = NoResp
    /\ cursor = NULL
    /\ known = {}
    /\ stream = NoStream

NextStream ==
    \/ jobSeq < MaxStreamJobs /\ CreateNoteFromImage(Client, <<"ok">>)
    \/ jobSeq < MaxStreamJobs /\ ProcessStoredJob(Client, "dict")
    \/ \E j \in JobIds : WorkerStart(j)
    \/ \E j \in JobIds, o \in Outcomes : WorkerResume(j, o)
    \/ \E n \in NoteIds : DeleteNote(Client, n)
    \/ DeleteUser(Client)
    \/ Tick
    \/ \E u \in Users, j \in JobIds : GetJob(u, j)
    \/ \E u \in Users, j \in JobIds : StreamOpen(u, j)
    \/ StreamTick
    \/ StreamDisconnect

SpecStream == InitStream /\ [][NextStream]_vars

\* The pipeline and the stream under the scheduling of the event loop: the
\* task that asyncio.create_task made is run (library.py:125-133), the
\* collaborator call it awaits returns or raises (pipeline_runner.py:55-69),
\* and the generator of an open stream is resumed after each sleep
\* (upload.py:149-172).  Requests come or not as the users please.
NextProgress ==
    \/ jobSeq < MaxStreamJobs /\ CreateNoteFromImage(Client, <<"ok">>)
    \/ jobSeq < MaxStreamJobs /\ ProcessStoredJob(Client, "dict")
    \/ \E j \in JobIds : WorkerStart(j)
    \/ \E j \in JobIds, o \in Outcomes : WorkerResume(j, o)
    \/ DeleteUser(Client)
    \/ \E u \in Users, j \in JobIds : StreamOpen(u, j)
    \/ StreamTick
    \/ StreamDisconnect

FairProgress ==
    /\ \A j \in JobIds : WF_vars(WorkerStart(j))
    /\ \A j \in JobIds : WF_vars(\E o \in Outcomes : WorkerResume(j, o))
    /\ WF_vars(StreamTick)

SpecProgress == InitStream /\ [][NextProgress]_vars /\ FairProgress

\* Mutation replay on PostgreSQL, where a flush can raise, next to the
\* DELETE requests of the users' other devices.
InitReplay == Init /\ available /\ fkEnforced

NextReplay ==
    \/ \E u \in Users : CreateTargetNote(u)
    \/ \E b \in Batches : ApplyNoteMutations(Client, b)
    \/ \E u \in Users, n \in Targets : DeleteNote(u, n)

SpecReplay == InitReplay /\ [][NextReplay]_vars

\* The note store as two users see it.  ensure_sqlite_schema adds the
\* user_id column to a notes table that was created without it: the rows
\* of such a table (at most one here) have no user_id and the device_id
\* they were written with.
LegacyNote(d) ==
    [user_id |-> "none", device_id |-> d, title |-> "a", original_text |-> "t",
     is_favorite |-> FALSE, is_archived |-> FALSE, created_at |-> 1, updated_at |-> 1]

InitIsolation ==
    /\ users = Users
    /\ available = TRUE
    /\ fkEnforced = FALSE
    /\ wall = 0
    /\ disk = <<>>
    /\ stream = NoStream
    /\ jobs = <<>>
    /\ jobSeq = 0
    /\ hist = [j \in JobIds |-> <<>>]
    /\ task = [j \in JobIds |-> "none"]
    /\ \E d \in Users \cup {"none"} :
          IF d = "none"
          THEN notes = <<>> /\ noteSeq = 0 /\ clock = 0
          ELSE notes = <<LegacyNote(d)>> /\ noteSeq = 1 /\ clock = 1
    /\ deletion_logs = <<>>
    /\ removed = [n \in NoteIds |-> <<>>]
    /\ resp = NoResp
    /\ cursor = NULL
    /\ known = {}

\* The requests of Client, next to the other user creating, changing and
\* deleting notes of their own.
NextIsolation ==
    \/ \E u \in Users : CreateTargetNote(u)
    \/ \E n \in Targets : GetNote(Client, n)
    \/ \E page \in {<<0, DefaultLimit>>, <<1, 1>>}, f \in BOOLEAN :
          ListNotes(Client, page[1], page[2], f)
    \/ \E q \in {"none", "a"}, n \in {NULL, 1} : SearchNotes(Client, q, n)
    \/ \E since \in 0..MaxClock : SyncNotes(Client, since)
    \/ \E ids \in SUBSET Targets : BatchGetNotes(Client, ids)
    \/ \E u \in Users, n \in Targets, p \in Patches : UpdateNote(u, n, p)
    \/ \E u \in Users, n \in Targets : ToggleFavorite(u, n)
    \/ \E u \in Users, n \in Targets : DeleteNote(u, n)
    \/ \E m \in Mutations : ApplyNoteMutations(Client, <<m>>)

SpecIsolation == InitIsolation /\ [][NextIsolation]_vars


(* ============================== Claims ================================ *)

(* ----------------------------- C1 ------------------------------------- *)
\* C1: the committed statuses of a job submitted through
\* create_note_from_image start STORED, QUEUED, both committed before the
\* worker writes anything (while the task is only scheduled nothing else is
\* in the log), every later committed change is an edge of the status
\* graph, and no job of any origin ever moves to a status earlier on the
\* path than one it had.
C1_StatusFollowsGraph ==
    LET path == <<"RECEIVED", "STORED", "QUEUED", "AI_PENDING", "AI_DONE", "PERSISTED">>
        edges == {<<path[i], path[i + 1]>> : i \in 1..(Len(path) - 1)}
                 \cup {<<path[i], "FAILED">> : i \in 1..(Len(path) - 1)}
        rank(s) == IF s = "FAILED" THEN Len(path) + 1
                   ELSE CHOOSE i \in DOMAIN path : path[i] = s
    IN /\ \A j \in 1..jobSeq :
             \A i \in 1..(Len(hist[j]) - 1) : rank(hist[j][i]) < rank(hist[j][i + 1])
       /\ \A j \in DOMAIN jobs :
             jobs[j].source = NOTE_JOB_SOURCE =>
                /\ Len(hist[j]) >= 2
                /\ hist[j][1] = "STORED" /\ hist[j][2] = "QUEUED"
                /\ task[j] = "scheduled" => hist[j] = <<"STORED", "QUEUED">>
                /\ \A i \in 1..(Len(hist[j]) - 1) :
                      <<hist[j][i], hist[j][i + 1]>> \in edges

\* A submitted job whose worker has run and written, and a job the worker
\* took through the whole success path.
C1_Witness ==
    /\ \E j \in DOMAIN jobs :
          jobs[j].source = NOTE_JOB_SOURCE /\ task[j] = "done" /\ Len(hist[j]) = 3
    /\ \E j \in DOMAIN jobs : jobs[j].status = "PERSISTED"

(* ----------------------------- C2 ------------------------------------- *)
\* C2: FAILED and PERSISTED are final: in the log of committed statuses of
\* every job a terminal status is the last entry, and the row, as long as
\* it exists, carries the last committed status whatever requests and
\* worker steps have run since.
C2_TerminalIsFinal ==
    /\ \A j \in 1..jobSeq :
          \A i \in 1..(Len(hist[j]) - 1) : hist[j][i] \notin TERMINAL_JOB_STATUSES
    /\ \A j \in DOMAIN jobs : jobs[j].status = hist[j][Len(hist[j])]

\* A PERSISTED job whose worker has finished (cleanup included) and whose
\* row a later request has written (its note was deleted), and a FAILED
\* job whose worker has finished.
C2_Witness ==
    /\ \E j \in DOMAIN jobs :
          /\ jobs[j].status = "PERSISTED" /\ task[j] = "done"
          /\ jobs[j].note_id = NULL
    /\ \E j \in DOMAIN jobs : jobs[j].status = "FAILED" /\ task[j] = "done"

(* ----------------------------- C3 ------------------------------------- *)
\* C3: in every committed state a job has a note_id if and only if its
\* status is PERSISTED.
C3_NoteIdIffPersisted ==
    \A j \in DOMAIN jobs : (jobs[j].note_id # NULL) <=> (jobs[j].status = "PERSISTED")

(* ----------------------------- C4 ------------------------------------- *)
\* C4: every note row that was deleted has exactly one deletion_logs row
\* for its id, and every deletion_logs row is for a note that was deleted.
C4_OneTombstonePerDeletion ==
    /\ \A n \in NoteIds :
          Len(removed[n]) > 0 =>
             Cardinality({i \in DOMAIN deletion_logs : deletion_logs[i].note_id = n}) = 1
    /\ \A i \in DOMAIN deletion_logs :
          /\ deletion_logs[i].note_id \in NoteIds
          /\ Len(removed[deletion_logs[i].note_id]) > 0

(* ----------------------------- C5 ------------------------------------- *)
\* C5: a sync response lists every note its caller touched after since
\* exactly once: in updated when the note exists, in deleted_ids when it
\* was removed, and no id is in both lists.
C5_TouchedOnce ==
    resp.op \in {"sync", "client_sync"} =>
       LET Occurrences(s, x) == Cardinality({i \in DOMAIN s : s[i] = x}) IN
       /\ \A n \in DOMAIN notes :
             notes[n].user_id = resp.user /\ notes[n].updated_at > resp.since =>
                /\ Occurrences(resp.updated, n) = 1
                /\ Occurrences(resp.deleted_ids, n) = 0
       /\ \A n \in NoteIds :
             (\E i \in DOMAIN removed[n] : /\ removed[n][i].user_id = resp.user
                                           /\ removed[n][i].at > resp.since) =>
                /\ Occurrences(resp.deleted_ids, n) = 1
                /\ Occurrences(resp.updated, n) = 0
       /\ Range(resp.updated) \cap Range(resp.deleted_ids) = {}

(* ----------------------------- C6 ------------------------------------- *)
\* C6: when the device of Client syncs again with nothing having happened
\* since its previous sync (the clock was not read in between), the note
\* ids it holds are the ids of the notes of Client on the server.
C6_ClientConverges ==
    (resp.op = "client_sync" /\ resp.since # NULL /\ resp.server_time = resp.since + 1) =>
       known = {n \in DOMAIN notes : notes[n].user_id = Client}

(* ----------------------------- C7 ------------------------------------- *)
\* C7: a sync response holds exactly the caller's notes with
\* since < updated_at <= until and exactly the note ids of the caller's
\* tombstones with since < deleted_at <= until, and server_time is until,
\* the clock reading the request made.
C7_ExactWindow ==
    resp.op \in {"sync", "client_sync"} =>
       /\ resp.server_time = clock
       /\ Range(resp.updated) =
             {n \in DOMAIN notes : /\ notes[n].user_id = resp.user
                                   /\ resp.since < notes[n].updated_at
                                   /\ notes[n].updated_at <= resp.server_time}
       /\ Range(resp.deleted_ids) =
             {deletion_logs[i].note_id :
                i \in {k \in DOMAIN deletion_logs :
                         /\ deletion_logs[k].user_id = resp.user
                         /\ resp.since < deletion_logs[k].deleted_at
                         /\ deletion_logs[k].deleted_at <= resp.server_time}}

(* ----------------------------- C8 ------------------------------------- *)
\* The jobs of u that count toward the limit: of the source of
\* create_note_from_image and neither FAILED nor PERSISTED.
ActiveNoteJobs(js, u) ==
    {j \in DOMAIN js : /\ js[j].user_id = u
                       /\ js[j].source = NOTE_JOB_SOURCE
                       /\ js[j].status # "FAILED" /\ js[j].status # "PERSISTED"}

\* C8: a step that creates a job of create_note_from_image starts in a
\* state where its owner has fewer than the limit of non-terminal jobs of
\* this source; and a request of an owner who has that many or more (the
\* collaborator being configured and the request carrying files, so that
\* the quota is looked at) is answered 429 and leaves the job table, the
\* job log and the tasks as they were.
C8_NoJobAtLimit ==
    [][ /\ (jobSeq' # jobSeq /\ jobs'[jobSeq'].source = NOTE_JOB_SOURCE) =>
             Cardinality(ActiveNoteJobs(jobs, jobs'[jobSeq'].user_id))
                < MAX_CONCURRENT_NOTE_JOBS_PER_USER
        /\ ( /\ resp' # resp /\ resp'.op = "from_image"
             /\ available /\ Len(resp'.files) \in 1..MAX_IMAGE_COUNT
             /\ Cardinality(ActiveNoteJobs(jobs, resp'.user))
                   >= MAX_CONCURRENT_NOTE_JOBS_PER_USER ) =>
             /\ resp'.code = 429
             /\ UNCHANGED <<jobs, jobSeq, hist, task>>
      ]_vars

\* A request was answered 429 while its owner has exactly the limit of
\* non-terminal jobs and a terminal one beside them, which was not counted
\* when the last of them was admitted.
C8_Witness ==
    /\ resp.op = "from_image" /\ resp.code = 429
    /\ Cardinality(ActiveNoteJobs(jobs, resp.user)) = MAX_CONCURRENT_NOTE_JOBS_PER_USER
    /\ \E j \in DOMAIN jobs : /\ jobs[j].user_id = resp.user
                              /\ jobs[j].source = NOTE_JOB_SOURCE
                              /\ jobs[j].status = "FAILED"
                              /\ j < jobSeq

C10_ResultPerMutation ==
    [][ (resp' # resp /\ resp'.op = "mutations") =>
          LET b == resp'.batch
              r == resp'.results
              u == resp'.user
              Invalid(m) ==
                 \/ m.type = "update_note" /\ (~m.patch.given \/ m.patch.data = <<>>)
                 \/ m.type = "set_favorite" /\ m.is_favorite = "none"
              Exists(i) ==
                 /\ b[i].note_id \in DOMAIN notes
                 /\ notes[b[i].note_id].user_id = u
                 /\ ~\E k \in 1..(i - 1) : /\ b[k].type = "delete_note"
                                           /\ b[k].note_id = b[i].note_id
              Applied(i) == ~Invalid(b[i]) /\ Exists(i)
              At(i) == clock + Cardinality({k \in 1..i : Applied(k)})
          IN /\ Len(r) = Len(b)
             /\ \A i \in DOMAIN b :
                   /\ r[i].op_id = i /\ r[i].type = b[i].type
                   /\ r[i].note_id = b[i].note_id
                   /\ IF Invalid(b[i])
                      THEN r[i].status = "invalid" /\ r[i].code = 422
                      ELSE IF ~Exists(i)
                      THEN r[i].status = "not_found" /\ r[i].code = 404
                      ELSE r[i].status = "applied" /\ r[i].code = 200
                   /\ (Applied(i) /\ b[i].type # "delete_note") =>
                         /\ r[i].updated_at = At(i)
                         /\ r[i].updated_at > notes[b[i].note_id].updated_at
                         /\ (~\E k \in (i + 1)..Len(b) :
                                Applied(k) /\ b[k].note_id = b[i].note_id) =>
                               notes'[b[i].note_id].updated_at = r[i].updated_at
                   /\ (Applied(i) /\ b[i].type = "delete_note") =>
                         b[i].note_id \notin DOMAIN notes'
      ]_vars

\* A batch deleted a note and then tried to update it: applied, not_found.
C10_Witness ==
    /\ resp.op = "mutations" /\ Len(resp.batch) = 2
    /\ resp.batch[1].type = "delete_note" /\ resp.batch[2].type = "update_note"
    /\ resp.batch[1].note_id = resp.batch[2].note_id
    /\ resp.batch[2].patch.given /\ resp.batch[2].patch.data # <<>>
    /\ resp.results[1].status = "applied" /\ resp.results[2].status = "not_found"

(* ----------------------------- C11 ------------------------------------ *)
\* C11: a mutation whose processing raises is reported failed/500 and
\* changes nothing, and the batch goes on: every mutation after it that is
\* valid, raises nothing itself and names a note of the caller that no
\* earlier mutation of the batch deleted is applied, and its change is
\* in the database after the request.
C11_FailureIsContained ==
    [][ (resp' # resp /\ resp'.op = "mutations") =>
          LET b == resp'.batch
              r == resp'.results
              u == resp'.user
              Invalid(m) ==
                 \/ m.type = "update_note" /\ (~m.patch.given \/ m.patch.data = <<>>)
                 \/ m.type = "set_favorite" /\ m.is_favorite = "none"
              Raises(m) ==
                 m.type = "update_note" /\ m.patch.given /\ FlushRaises(m.patch.data)
              Exists(i) ==
                 /\ HasNote(notes, b[i].note_id, u)
                 /\ ~\E k \in 1..(i - 1) : /\ b[k].type = "delete_note"
                                           /\ b[k].note_id = b[i].note_id
              Good(i) == ~Invalid(b[i]) /\ ~Raises(b[i]) /\ Exists(i)
          IN \A i \in DOMAIN b :
                /\ (~Invalid(b[i]) /\ Raises(b[i]) /\ Exists(i)) =>
                      /\ r[i].status = "failed" /\ r[i].code = 500
                      /\ (~\E k \in DOMAIN b : k # i /\ b[k].note_id = b[i].note_id) =>
                            /\ b[i].note_id \in DOMAIN notes'
                            /\ notes'[b[i].note_id] = notes[b[i].note_id]
                /\ Good(i) =>
                      /\ r[i].status = "applied" /\ r[i].code = 200
                      /\ b[i].type = "delete_note" => b[i].note_id \notin DOMAIN notes'
                      /\ b[i].type = "set_favorite" =>
                            notes'[b[i].note_id].is_favorite = (b[i].is_favorite = "true")
      ]_vars

\* A batch whose first mutation failed and whose second one is valid and
\* names a note of the caller.
C11_Witness ==
    /\ resp.op = "mutations" /\ Len(resp.batch) = 2
    /\ resp.results[1].status = "failed"
    /\ resp.batch[2].type = "set_favorite" /\ resp.batch[2].is_favorite = "true"
    /\ resp.batch[2].note_id \in DOMAIN notes
    /\ notes[resp.batch[2].note_id].user_id = resp.user

(* ----------------------------- C12 ------------------------------------ *)
\* C12: the response to a batch holds one result per mutation, in the
\* order of the batch, each with the op_id, type and note_id of its
\* mutation; applied_count counts the results with status applied,
\* failed_count all the others (invalid, not_found, failed), and the two
\* add up to the length of the batch.
C12_ResultsMirrorBatch ==
    [][ (resp' # resp /\ resp'.op = "mutations") =>
          LET b == resp'.batch
              r == resp'.results
              With_(S) == Cardinality({i \in DOMAIN r : r[i].status \in S})
          IN /\ DOMAIN r = DOMAIN b
             /\ \A i \in DOMAIN b :
                   /\ r[i].op_id = i
                   /\ r[i].type = b[i].type
                   /\ r[i].note_id = b[i].note_id
                   /\ r[i].status \in {"applied", "not_found", "invalid", "failed"}
             /\ resp'.applied_count = With_({"applied"})
             /\ resp'.failed_count = With_({"not_found", "invalid", "failed"})
             /\ resp'.applied_count + resp'.failed_count = Len(b)
      ]_vars

\* A batch with one applied mutation and one that is not: an invalid one
\* after an applied one, or a failed one after it.
C12_Witness ==
    /\ resp.op = "mutations" /\ Len(resp.batch) = 2
    /\ resp.results[1].status = "applied"
    /\ resp.results[2].status \in {"invalid", "failed"}
    /\ resp.applied_count = 1 /\ resp.failed_count = 1

(* ----------------------------- C13 ------------------------------------ *)
\* C13: a delete_note mutation for a note that is already deleted (it has
\* a tombstone, or an earlier mutation of the batch deleted it) is
\* reported not_found and writes nothing, and after any request there is
\* at most one tombstone per note id.
C13_DeleteReplayIdempotent ==
    [][ LET Tombstones(logs, n) == {k \in DOMAIN logs : logs[k].note_id = n}
        IN /\ \A n \in NoteIds : Cardinality(Tombstones(deletion_logs', n)) <= 1
           /\ (resp' # resp /\ resp'.op = "mutations") =>
                 \A i \in DOMAIN resp'.batch :
                    LET m == resp'.batch[i]
                        Deleted ==
                           \/ Tombstones(deletion_logs, m.note_id) # {}
                           \/ \E k \in 1..(i - 1) :
                                 /\ resp'.batch[k].type = "delete_note"
                                 /\ resp'.batch[k].note_id = m.note_id
                                 /\ resp'.results[k].status = "applied"
                    IN (m.type = "delete_note" /\ Deleted) =>
                          /\ resp'.results[i].status = "not_found"
                          /\ resp'.results[i].code = 404
      ]_vars

(* ----------------------------- C14 ------------------------------------ *)
\* C14: the owner of a note is its user_id when it has one and its
\* device_id otherwise.  Whatever request a caller makes (get, list,
\* search, sync, batch, update, favorite, delete, mutation replay), the
\* notes and tombstones of everybody else are left as they were, every
\* note in the response is a note of the caller, and the response is the
\* one the same request gets from the database without the notes and
\* tombstones of everybody else.
C14_OwnershipIsolation ==
    [][ LET A == resp'.user
            Owner(note) == IF note.user_id # "none" THEN note.user_id ELSE note.device_id
            Mine(ns)    == [n \in {k \in DOMAIN ns : Owner(ns[k]) = A} |-> ns[n]]
            Others(ns)  == [n \in {k \in DOMAIN ns : Owner(ns[k]) # A} |-> ns[n]]
            MyLogs(logs)    == SelectSeq(logs, LAMBDA l : l.user_id = A)
            OtherLogs(logs) == SelectSeq(logs, LAMBDA l : l.user_id # A)
            alone == [DB EXCEPT !.notes = Mine(notes), !.logs = MyLogs(deletion_logs)]
            IsMine(n) == n \in DOMAIN notes /\ Owner(notes[n]) = A
            r == resp'
        IN /\ Others(notes') = Others(notes)
           /\ OtherLogs(deletion_logs') = OtherLogs(deletion_logs)
           /\ r.op \in {"get", "batch"} => \A p \in r.notes : IsMine(p.id)
           /\ r.op \in {"list", "search"} =>
                 \A k \in DOMAIN r.notes : IsMine(r.notes[k].id)
           /\ r.op = "sync" =>
                 /\ \A k \in DOMAIN r.updated : IsMine(r.updated[k])
                 /\ r = [op |-> "sync", code |-> 200] @@ sync_notes(alone, A, r.since)
           /\ r.op = "get" => (r.code = 200 <=> HasNote(alone.notes, r.note, A))
           /\ r.op = "batch" =>
                 {p.id : p \in r.notes} = get_notes_by_ids(alone.notes, A, r.note_ids)
           /\ r.op = "list" =>
                 [k \in DOMAIN r.notes |-> r.notes[k].id] =
                    SelectSeq(get_user_notes(alone.notes, A, r.skip, r.limit),
                              LAMBDA n : ~r.favorite_only \/ notes[n].is_favorite)
           /\ (r.op = "search" /\ r.note # NULL) =>
                 (r.code = 200 <=> HasNote(alone.notes, r.note, A))
           /\ (r.op = "search" /\ r.note = NULL /\ r.q # "none") =>
                 [k \in DOMAIN r.notes |-> r.notes[k].id] = search_notes(alone.notes, A, r.q)
           /\ r.op \in {"update", "favorite", "delete"} =>
                 (r.code = 200 <=> HasNote(alone.notes, r.note, A))
           /\ r.op = "mutations" =>
                 r.results = ApplyFrom(alone, A, r.batch, 1, <<>>).results
      ]_vars

\* Client asked for a note of somebody else by id, in a batch request, and
\* got none.
C14_Witness ==
    /\ resp.op = "batch" /\ resp.total = 0
    /\ \E n \in resp.note_ids :
          /\ n \in DOMAIN notes
          /\ notes[n].user_id # resp.user
          /\ ~(notes[n].user_id = "none" /\ notes[n].device_id = resp.user)

C16_ValidatedBeforeStored ==
    [][ ( /\ resp'.op \in {"from_image", "upload"}
          /\ \E i \in DOMAIN resp'.files :
                resp'.files[i] \in {"noname", "badext", "empty", "big"} ) =>
          /\ resp'.code \in {400, 429, 503}
          /\ (resp'.op = "upload"
                \/ (available /\ Cardinality(ActiveNoteJobs(jobs, resp'.user))
                                    < MAX_CONCURRENT_NOTE_JOBS_PER_USER)) =>
                resp'.code = 400
          /\ resp'.stored = 0
          /\ resp'.job = NULL
          /\ jobs' = jobs /\ jobSeq' = jobSeq /\ hist' = hist /\ task' = task
      ]_vars

\* A submission whose first file is good and whose second file is empty
\* was rejected by create_job.
C16_Witness ==
    /\ resp.op = "from_image" /\ resp.code = 400
    /\ Len(resp.files) = 2 /\ resp.files[1] = "ok" /\ resp.files[2] = "empty"
    /\ available
    /\ Cardinality(ActiveNoteJobs(jobs, resp.user)) < MAX_CONCURRENT_NOTE_JOBS_PER_USER

(* ----------------------------- C17 ------------------------------------ *)
\* C17: a job that create_note_from_image admitted with valid images, the
\* collaborator being configured, and whose worker has finished without
\* the collaborator call having failed or returned something unusable,
\* is PERSISTED, the collaborator was called for it and it is linked to
\* a note (until that note is deleted).
C17_SubmittedImagesPersist ==
    \A j \in DOMAIN jobs :
       LET CallFailed == /\ "AI_PENDING" \in Range(hist[j])
                         /\ jobs[j].status = "FAILED"
       IN ( /\ jobs[j].source = NOTE_JOB_SOURCE
            /\ task[j] = "done"
            /\ available
            /\ ~CallFailed ) =>
             /\ jobs[j].status = "PERSISTED"
             /\ "AI_PENDING" \in Range(hist[j])

(* ----------------------------- C18 ------------------------------------ *)
\* C18: when the worker of a job gets as far as asking for the
\* collaborator and finds it unavailable, that step leaves the job FAILED
\* with one more error record, of the collaborator's stage (DOUBAO in the
\* code); AI_PENDING is not committed, the worker is finished without
\* having called the collaborator, and no note is created.
C18_UnavailableFailsJob ==
    [][ \A j \in JobIds :
          ( /\ WorkerStart(j)
            /\ j \in DOMAIN jobs
            /\ jobs[j].storage = "dict"
            /\ ~available ) =>
             /\ jobs'[j].status = "FAILED"
             /\ jobs'[j].error_logs = Append(jobs[j].error_logs, "DOUBAO")
             /\ hist'[j] = Append(hist[j], "FAILED")
             /\ "AI_PENDING" \notin Range(hist'[j])
             /\ task'[j] = "done"
             /\ jobs'[j].note_id = NULL
             /\ notes' = notes /\ noteSeq' = noteSeq
      ]_vars

\* The worker of a job with a storage path ran while the collaborator was
\* not available.
C18_Witness ==
    /\ ~available
    /\ \E j \in DOMAIN jobs :
          /\ jobs[j].storage = "dict" /\ task[j] = "done"
          /\ jobs[j].status = "FAILED" /\ jobs[j].error_logs = <<"DOUBAO">>

TerminalEvents(events) ==
    {i \in DOMAIN events : /\ events[i].event = "message"
                           /\ events[i].data.status \in TERMINAL_JOB_STATUSES}
ErrorEvents(events) == {i \in DOMAIN events : events[i].event = "error"}

\* C21: a progress stream ends by itself only right after it has sent a
\* snapshot whose status is FAILED or PERSISTED, or an error event; that
\* event is the last one and the only terminal snapshot or error event of
\* the stream; a round on a job that is there, readable by the caller and
\* not terminal leaves the stream open; and a stream opened on a job that
\* is already terminal sends that one snapshot and ends.
C21_StreamEndsOnTerminal ==
    /\ [](LET ending == TerminalEvents(stream.events) \cup ErrorEvents(stream.events)
          IN /\ stream.state = "closed" => ending = {Len(stream.events)}
             /\ stream.state # "closed" => ending = {})
    /\ [][StreamTick =>
            LET j == stream.job
            IN /\ ( /\ j \in DOMAIN jobs
                    /\ ~Forbidden(jobs[j], stream.user)
                    /\ jobs[j].status \notin TERMINAL_JOB_STATUSES )
                     => stream'.state = "open"
               /\ ( /\ j \in DOMAIN jobs
                    /\ ~Forbidden(jobs[j], stream.user)
                    /\ jobs[j].status \in TERMINAL_JOB_STATUSES
                    /\ stream.events = <<>> )
                     => /\ stream'.state = "closed"
                        /\ stream'.events =
                             <<[event |-> "message", data |-> _serialize_job(jobs[j])]>>
          ]_vars

\* A stream has followed a job from a status that is not terminal to
\* FAILED or PERSISTED and has ended there.
C21_Witness ==
    /\ stream.state = "closed"
    /\ Len(stream.events) >= 2
    /\ stream.events[1].event = "message"
    /\ stream.events[1].data.status \notin TERMINAL_JOB_STATUSES
    /\ stream.events[Len(stream.events)].event = "message"
    /\ stream.events[Len(stream.events)].data.status \in TERMINAL_JOB_STATUSES

(* ------------------------------- C22 ---------------------------------- *)
\* The snapshot a stream sent last, if it has sent one.
LastSent(events) ==
    LET sent == {i \in DOMAIN events : events[i].event = "message"}
    IN IF sent = {} THEN {}
       ELSE {events[CHOOSE i \in sent : \A k \in sent : k <= i].data}

\* C22: a round of a stream that reads a job the caller may read sends
\* its snapshot exactly when the snapshot differs from the last one the
\* stream has sent (so the first round always sends, and a change of
\* status, second of updated_at, note_id or error list seen by a round is
\* sent by that round), and no two snapshots sent in a row are equal.
C22_SendsExactlyChanges ==
    /\ [](\A i \in DOMAIN stream.events :
             (i > 1 /\ stream.events[i].event = "message")
                => stream.events[i].data # stream.events[i - 1].data)
    /\ [][(StreamTick /\ stream.job \in DOMAIN jobs
                      /\ ~Forbidden(jobs[stream.job], stream.user)) =>
            LET snapshot == _serialize_job(jobs[stream.job])
            IN IF LastSent(stream.events) = {snapshot}
               THEN stream'.events = stream.events
               ELSE stream'.events =
                      Append(stream.events, [event |-> "message", data |-> snapshot])
          ]_vars

\* An open stream has sent two snapshots and the job has not changed since
\* the second: the next round has nothing to send.
C22_Witness ==
    /\ stream.state = "open"
    /\ Len(stream.events) = 2
    /\ stream.job \in DOMAIN jobs
    /\ LastSent(stream.events) = {_serialize_job(jobs[stream.job])}

(* ------------------------------- C23 ---------------------------------- *)
\* The owner of a job: its user_id, or its device_id when it has none.
JobOwner(job) == IF job.user_id = "none" THEN job.device_id ELSE job.user_id

C24_StreamLeavesPipelineAlone ==
    /\ [][(stream' # stream \/ resp'.op \in {"stream", "get_job"})
             => UNCHANGED <<jobs, jobSeq, hist, task, notes, noteSeq,
                            deletion_logs, removed, disk, users>>]_vars
    /\ [](\A j \in JobIds :
             /\ task[j] = "scheduled" => ENABLED WorkerStart(j)
             /\ task[j] = "calling" => ENABLED WorkerResume(j, "crash"))

\* The client dropped the stream while the job was not terminal, and the
\* job has reached a terminal status afterwards.
C24_Witness ==
    /\ stream.state = "aborted"
    /\ stream.events # <<>>
    /\ \A i \in DOMAIN stream.events :
          /\ stream.events[i].event = "message"
          /\ stream.events[i].data.status \notin TERMINAL_JOB_STATUSES
    /\ stream.job \in DOMAIN jobs
    /\ jobs[stream.job].status \in TERMINAL_JOB_STATUSES

(* ------------------------------- C25 ---------------------------------- *)
\* The descriptors of the jobs create_job has stored: job id and index.
Descriptors ==
    {d \in (DOMAIN jobs) \X (1..MAX_IMAGE_COUNT) :
        jobs[d[1]].storage = "list" /\ d[2] \in DOMAIN jobs[d[1]].paths}

C26_JobsNeverDeleted ==
    [][DOMAIN jobs \subseteq DOMAIN jobs']_vars

(* ------------------------------- C27 ---------------------------------- *)
\* The stages the worker writes into an error record.
FailureStages == {"DOUBAO", "UNEXPECTED"}

\* C27: a job is FAILED exactly when its error list is not empty; a step
\* that takes a job into FAILED appends one record, which names a stage,
\* in the same commit; and no step removes or changes a record of a job
\* that stays in the table.
C27_FailedHasErrorRecord ==
    /\ [](\A j \in DOMAIN jobs :
             jobs[j].status = "FAILED" <=> jobs[j].error_logs # <<>>)
    /\ [][\A j \in (DOMAIN jobs) \cap (DOMAIN jobs') :
            LET old == jobs[j].error_logs
                new == jobs'[j].error_logs
            IN /\ Len(old) <= Len(new)
               /\ SubSeq(new, 1, Len(old)) = old
               /\ (jobs[j].status # "FAILED" /\ jobs'[j].status = "FAILED")
                     => /\ Len(new) = Len(old) + 1
                        /\ new[Len(new)] \in FailureStages
          ]_vars

\* A job has failed after AI_DONE was committed (create_note raised), and
\* another one at the collaborator call.
C27_Witness ==
    /\ \E j \in DOMAIN jobs :
          /\ jobs[j].status = "FAILED"
          /\ jobs[j].error_logs = <<"UNEXPECTED">>
          /\ \E i \in DOMAIN hist[j] : hist[j][i] = "AI_DONE"
    /\ \E j \in DOMAIN jobs :
          /\ jobs[j].status = "FAILED"
          /\ jobs[j].error_logs = <<"DOUBAO">>

(* ------------------------------- C28 ---------------------------------- *)
\* C28: every committed change of a job's status carries an updated_at
\* later than the one committed before it (STORED to QUEUED inside the
\* request, each write of the worker, and the writes of one stretch that
\* commits twice), and two snapshots of one job sent by a stream with
\* different statuses never carry the same updated_at.
C28_UpdatedAtAdvances ==
    /\ [][\A j \in (DOMAIN jobs) \cap (DOMAIN jobs') :
            /\ jobs'[j].status # jobs[j].status
                  => Before(jobs[j].updated_at, jobs'[j].updated_at)
            /\ Len(hist'[j]) = Len(hist[j]) + 2
                  => LET mid == _update_status(jobs[j], hist'[j][Len(hist[j]) + 1])
                     IN /\ Before(jobs[j].updated_at, mid.updated_at)
                        /\ Before(mid.updated_at, jobs'[j].updated_at)
          ]_vars
    /\ [][(resp'.op = "from_image" /\ resp'.code = 202)
            => Before(create_job(resp'.job, resp'.files, resp'.user, resp'.user,
                                 NOTE_JOB_SOURCE).updated_at,
                      jobs'[resp'.job].updated_at)
          ]_vars
    /\ [](\A i, k \in DOMAIN stream.events :
             ( /\ stream.events[i].event = "message"
               /\ stream.events[k].event = "message"
               /\ stream.events[i].data.status # stream.events[k].data.status )
             => stream.events[i].data.updated_at # stream.events[k].data.updated_at)

(* ------------------------------- C29 ---------------------------------- *)
\* The job was enqueued by create_note_from_image.
Enqueued(j) ==
    /\ j \in DOMAIN jobs
    /\ jobs[j].source = NOTE_JOB_SOURCE
    /\ jobs[j].status = "QUEUED"

\* The job has a row in a terminal status.
Ended(j) == j \in DOMAIN jobs /\ jobs[j].status \in TERMINAL_JOB_STATUSES

\* C29: with the task run and the collaborator call returning or raising,
\* every job create_note_from_image enqueued eventually is FAILED or
\* PERSISTED, and every stream open on such a job eventually is not open.
C29_EveryJobEnds ==
    /\ \A j \in JobIds : Enqueued(j) ~> Ended(j)
    /\ \A j \in JobIds : (stream.state = "open" /\ stream.job = j /\ Enqueued(j))
                             ~> (stream.state # "open")

(* ------------------------------- C30 ---------------------------------- *)
\* The database after the first k passes of the loop over batch.
AfterPasses(db, u, batch, k) == ApplyFrom(db, u, SubSeq(batch, 1, k), 1, <<>>).db

\* What a pass can change of the notes: the rows, the tombstones and the
\* record of physical deletions.
NoteState(db) == <<db.notes, db.logs, db.removed>>

\* The batch without its i-th mutation.
Remove(batch, i) == SubSeq(batch, 1, i - 1) \o SubSeq(batch, i + 1, Len(batch))

Rejected(result) == result.status \in {"invalid", "not_found"}

\* C30: in every answer of apply_note_mutations, the pass of a mutation
\* answered invalid or not_found leaves every note row (updated_at
\* included), every tombstone and the clock as the pass before it left
\* them; the request leaves the notes and tombstones the same request
\* without that mutation leaves, and a sync of the caller after it, full
\* or from the time before the request, returns what it returns after the
\* request without that mutation.
C30_RejectedMutationChangesNothing ==
    [][resp'.op = "mutations" =>
         \A i \in DOMAIN resp'.results :
            Rejected(resp'.results[i]) =>
               LET u       == resp'.user
                   batch   == resp'.batch
                   before  == AfterPasses(DB, u, batch, i - 1)
                   after   == AfterPasses(DB, u, batch, i)
                   without == ApplyFrom(DB, u, Remove(batch, i), 1, <<>>).db
                   left    == [without EXCEPT !.clock = @ + 1]
               IN /\ NoteState(after) = NoteState(before)
                  /\ after.clock = before.clock
                  /\ <<notes', deletion_logs', removed'>> = NoteState(without)
                  /\ \A since \in {0, clock} :
                        sync_notes(DB', u, since) = sync_notes(left, u, since)
    ]_vars

\* A batch answered with an applied mutation followed by one that is
\* not_found though a note with that id exists: it is not the caller's.
C30_Witness ==
    /\ resp.op = "mutations"
    /\ Len(resp.results) = 2
    /\ resp.results[1].status = "applied"
    /\ resp.results[2].status = "not_found"
    /\ resp.batch[2].note_id \in DOMAIN notes

=============================================================================
